---- MODULE Spec2Model ----
(***************************************************************************)
(* Model of the grid game service (src/service.py, src/utils.py,           *)
(* src/schema.py).  The database tables are the state; every Service       *)
(* method is one request run by a worker.  create_user and create_game are *)
(* one transaction without a race window and are one step each.  join_game *)
(* and move read the game first and write later, so they are split at the  *)
(* points where another request's commit can come in between:              *)
(*   move : MoveRead  (lines 126-140)  ->  MoveClaim (lines 143-151)       *)
(*                                     ->  MoveFinish (lines 153-200)      *)
(*   join : JoinRead  (lines 86-100)   ->  JoinWrite (lines 102-119)       *)
(* The store gives every request its own transaction: the conditional      *)
(* UPDATE of MoveClaim takes the write lock of the game row until the      *)
(* transaction commits or rolls back, readers see committed rows only, and *)
(* an exception leaving the `with s.begin()` block rolls everything back.  *)
(* The variables games, players and moves hold the committed rows; what a  *)
(* transaction has written and not committed lives in the step that ends   *)
(* it (tx_games in MoveFinish).  Timestamps and User.name are left out:    *)
(* nothing in the service reads them.                                      *)
(***************************************************************************)
EXTENDS Integers, Sequences, FiniteSets, TLC

\* ---- bounds of the model -------------------------------------------------
MaxUsers == 2
MaxGames == 1
NumProcs == 2
MaxMoves == 3

\* ---- program constants ---------------------------------------------------
BOARD_SIZE == 3
FULL_BOARD == 9
None == 0

Procs == 1..NumProcs
UserIds == 1..MaxUsers
GameIds == 1..MaxGames
Coords == 0..(BOARD_SIZE - 1)

VARIABLES
    users,      \* table users: number of rows, ids 1..users
    games,      \* table games: sequence indexed by Game.id
    players,    \* table players: sequence indexed by Player.id
    moves,      \* table moves: sequence indexed by Move.id
    pc,         \* per worker: where its current request stands
    req,        \* per worker: the request's arguments and locals
    last        \* the response of the request that completed last

vars == <<users, games, players, moves, pc, req, last>>
db == <<users, games, players, moves>>

\* ---- schema ----------------------------------------------------------------
Game(status, winner_id, turn_no) ==
    [status |-> status, winner_id |-> winner_id, turn_no |-> turn_no]

Player(game_id, user_id, player_order) ==
    [game_id |-> game_id, user_id |-> user_id, player_order |-> player_order]

Move(game_id, user_id, move_no, row, col) ==
    [game_id |-> game_id, user_id |-> user_id, move_no |-> move_no,
     row |-> row, col |-> col]

\* Game.players: the Player rows of a game (ids)
game_players(ps, g) == {i \in 1..Len(ps) : ps[i].game_id = g}

\* Game.moves: the Move rows of a game (ids)
game_moves(ms, g) == {i \in 1..Len(ms) : ms[i].game_id = g}

\* table players with unique_game_user only: the constraint
\* unique_game_player_slot is dropped
player_unique_ok_NoSlot(ps, row) ==
    \A i \in 1..Len(ps) :
        ps[i].game_id = row.game_id => ps[i].user_id # row.user_id

\* UniqueConstraint unique_game_player_slot and unique_game_user
player_unique_ok(ps, row) ==
    \A i \in 1..Len(ps) :
        ps[i].game_id = row.game_id =>
            /\ ps[i].player_order # row.player_order
            /\ ps[i].user_id # row.user_id

\* UniqueConstraint unique_cell and unique_move_number
move_unique_ok(ms, row) ==
    \A i \in 1..Len(ms) :
        ms[i].game_id = row.game_id =>
            /\ ~(ms[i].row = row.row /\ ms[i].col = row.col)
            /\ ms[i].move_no # row.move_no

\* ---- utils.py ----------------------------------------------------------------
VICTORY_CONDITIONS_NoColumns ==
    << <<(<<0, 0>>), (<<0, 1>>), (<<0, 2>>)>>,
       <<(<<1, 0>>), (<<1, 1>>), (<<1, 2>>)>>,
       <<(<<2, 0>>), (<<2, 1>>), (<<2, 2>>)>>,
       <<(<<0, 0>>), (<<1, 1>>), (<<2, 2>>)>>,
       <<(<<0, 2>>), (<<1, 1>>), (<<2, 0>>)>> >>

VICTORY_CONDITIONS ==
    << <<(<<0, 0>>), (<<0, 1>>), (<<0, 2>>)>>,
       <<(<<1, 0>>), (<<1, 1>>), (<<1, 2>>)>>,
       <<(<<2, 0>>), (<<2, 1>>), (<<2, 2>>)>>,
       <<(<<0, 0>>), (<<1, 0>>), (<<2, 0>>)>>,
       <<(<<0, 1>>), (<<1, 1>>), (<<2, 1>>)>>,
       <<(<<0, 2>>), (<<1, 2>>), (<<2, 2>>)>>,
       <<(<<0, 0>>), (<<1, 1>>), (<<2, 2>>)>>,
       <<(<<0, 2>>), (<<1, 1>>), (<<2, 0>>)>> >>

EmptyBoard == [cell \in Coords \X Coords |-> None]

\* select(Move).where(Move.game_id == g).order_by(Move.move_no): the ids of
\* the game's moves in move_no order (rows with equal move_no in id order)
RECURSIVE order_by_move_no(_, _)
order_by_move_no(ms, ids) ==
    IF ids = {} THEN <<>>
    ELSE LET first == CHOOSE i \in ids :
                 \A j \in ids : \/ ms[i].move_no < ms[j].move_no
                                \/ (ms[i].move_no = ms[j].move_no /\ i <= j)
         IN  <<first>> \o order_by_move_no(ms, ids \ {first})

RECURSIVE construct_board_from_Transposed(_, _, _)
construct_board_from_Transposed(board, ms, order) ==
    IF order = <<>> THEN board
    ELSE LET m == ms[Head(order)]
         IN  construct_board_from_Transposed(
                 [board EXCEPT ![<<m.col, m.row>>] = m.user_id], ms, Tail(order))

RECURSIVE construct_board_from(_, _, _)
construct_board_from(board, ms, order) ==
    IF order = <<>> THEN board
    ELSE LET m == ms[Head(order)]
         IN  construct_board_from(
                 [board EXCEPT ![<<m.row, m.col>>] = m.user_id], ms, Tail(order))

construct_board(ms, g) ==
    construct_board_from(EmptyBoard, ms, order_by_move_no(ms, game_moves(ms, g)))

RECURSIVE find_winner_from_TwoCells(_, _)
find_winner_from_TwoCells(board, k) ==
    IF k > Len(VICTORY_CONDITIONS) THEN None
    ELSE LET condition == VICTORY_CONDITIONS[k]
             ids == [n \in 1..3 |-> board[condition[n]]]
         IN  IF ids[1] # None /\ ids[1] = ids[2]
             THEN ids[1]
             ELSE find_winner_from_TwoCells(board, k + 1)

RECURSIVE find_winner_from(_, _)
find_winner_from(board, k) ==
    IF k > Len(VICTORY_CONDITIONS) THEN None
    ELSE LET condition == VICTORY_CONDITIONS[k]
             ids == [n \in 1..3 |-> board[condition[n]]]
         IN  IF ids[1] # None /\ Cardinality({n \in 1..3 : ids[n] = ids[1]}) = 3
             THEN ids[1]
             ELSE find_winner_from(board, k + 1)

find_winner(board) == find_winner_from(board, 1)

\* order_dict.get(order): the user of the seat, None if the seat is empty
order_to_user(ps, g, order) ==
    IF \E i \in game_players(ps, g) : ps[i].player_order = order
    THEN ps[CHOOSE i \in game_players(ps, g) : ps[i].player_order = order].user_id
    ELSE None

\* next_player without the status check of line 51: the turn's seat is
\* reported whatever the status of the game
next_player_AnyStatus(gs, ps, g) == order_to_user(ps, g, gs[g].turn_no % 2)

next_player(gs, ps, g) ==
    IF gs[g].status # "in_progress" THEN None
    ELSE order_to_user(ps, g, gs[g].turn_no % 2)

players_in_order(ps, g) == <<order_to_user(ps, g, 0), order_to_user(ps, g, 1)>>

\* ---- requests ----------------------------------------------------------------
Idle == [op |-> "none", game |-> None, user |-> None,
         expected_turn |-> 0, order |-> 0, n_players |-> 0]

\* the locals of a move request between its statements: game_id, user_id and
\* expected_turn.  row and col are first read at line 155 and are drawn there.
MoveRequest(g, u, expected_turn) ==
    [op |-> "move", game |-> g, user |-> u,
     expected_turn |-> expected_turn, order |-> 0, n_players |-> 0]

\* the locals of a join request between its statements: game_id, user_id,
\* order and the loaded len(game.players)
JoinRequest(g, u, order, n_players) ==
    [op |-> "join", game |-> g, user |-> u,
     expected_turn |-> 0, order |-> order, n_players |-> n_players]

HTTPException(status_code, detail) == [status |-> status_code, detail |-> detail]

\* the request returned normally
Ok == [status |-> 200, detail |-> "ok"]

\* sqlalchemy.exc.IntegrityError raised by a flush: it has no status_code
IntegrityError == [status |-> None, detail |-> "IntegrityError"]

\* what a caller of the Service method gets back, with the arguments of the
\* call; target is <<row, col>> once the handler has read them, else <<>>
Response(op, g, u, target, outcome) ==
    [op |-> op, game |-> g, user |-> u, target |-> target,
     status |-> outcome.status, detail |-> outcome.detail]

\* `with self._sf() as s, s.begin()`: an exception leaving the block rolls the
\* transaction back, so the committed rows stay and the transaction's are lost
Rollback_Commits(committed, uncommitted) == uncommitted

Rollback(committed, uncommitted) == committed

\* a transaction holds the write lock of game row g (claimed, not yet ended)
row_locked_Never(g) == FALSE

row_locked(g) == \E q \in Procs : pc[q] = "move_claimed" /\ req[q].game = g

\* the request of worker p is over
Return(p, response) ==
    /\ last' = response
    /\ pc' = [pc EXCEPT ![p] = "idle"]
    /\ req' = [req EXCEPT ![p] = Idle]

Init ==
    /\ users = 0
    /\ games = <<>>
    /\ players = <<>>
    /\ moves = <<>>
    /\ pc = [p \in Procs |-> "idle"]
    /\ req = [p \in Procs |-> Idle]
    /\ last = Response("none", None, None, <<>>, Ok)

\* Service.create_user
create_user(p) ==
    /\ pc[p] = "idle"
    /\ users < MaxUsers
    /\ users' = users + 1
    /\ last' = Response("create_user", None, users + 1, <<>>, Ok)
    /\ UNCHANGED <<games, players, moves, pc, req>>

\* create_game without the user lookup of lines 38-39
create_game_NoUserCheck(p, creator_user_id, cap) ==
    /\ pc[p] = "idle"
    /\ Len(games) < cap
    /\ games' = Append(games, Game("waiting", None, 0))
    /\ players' = Append(players, Player(Len(games) + 1, creator_user_id, 0))
    /\ last' = Response("create_game", Len(games) + 1, creator_user_id, <<>>, Ok)
    /\ UNCHANGED <<users, moves, pc, req>>

\* Service.create_game; a run creates at most cap games
create_game(p, creator_user_id, cap) ==
    /\ pc[p] = "idle"
    /\ IF ~(creator_user_id \in 1..users)
       THEN /\ last' = Response("create_game", None, creator_user_id, <<>>,
                                HTTPException(404, "User not found"))
            /\ UNCHANGED <<games, players>>
       ELSE /\ Len(games) < cap
            /\ games' = Append(games, Game("waiting", None, 0))
            /\ players' = Append(players, Player(Len(games) + 1, creator_user_id, 0))
            /\ last' = Response("create_game", Len(games) + 1, creator_user_id,
                                <<>>, Ok)
    /\ UNCHANGED <<users, moves, pc, req>>

\* models.ViewGame
ViewGame(id, status, board, next_player_id, seated, winner_id) ==
    [id |-> id, status |-> status, board |-> board,
     next_player_id |-> next_player_id, players |-> seated,
     winner_id |-> winner_id]

\* Service.get_game_view, lines 47-72, on the rows a reader sees; get_game
\* calls it on the committed rows, move returns it at line 200
get_game_view(gs, ps, ms, g) ==
    IF ~(g \in 1..Len(gs)) THEN HTTPException(404, "Game not Found")
    ELSE ViewGame(g, gs[g].status, construct_board(ms, g),
                  next_player(gs, ps, g),
                  SelectSeq(players_in_order(ps, g), LAMBDA u : u # None),
                  gs[g].winner_id)

\* ---- statistics ----------------------------------------------------------------
\* Python floats that are quotients of two counts: the fraction in lowest
\* terms; two quotients are the same float exactly when they are the same
\* fraction
RECURSIVE gcd(_, _)
gcd(a, b) == IF b = 0 THEN a ELSE gcd(b, a % b)

Float(n, d) == <<n \div gcd(n, d), d \div gcd(n, d)>>

FloatLess(x, y) == x[1] * y[2] < y[1] * x[2]

\* Optional[float] None
NoFloat == <<>>

RECURSIVE sum(_, _)
sum(f, keys) ==
    IF keys = {} THEN 0
    ELSE LET k == CHOOSE k \in keys : TRUE
         IN  f[k] + sum(f, keys \ {k})

\* models.UserStats
UserStats(user_id, n_games, wins, loses, draws, win_ratio, efficiency) ==
    [user_id |-> user_id, games |-> n_games, wins |-> wins, loses |-> loses,
     draws |-> draws, win_ratio |-> win_ratio, efficiency |-> efficiency]

\* lines 216-228: the rows of Game JOIN Player that are finished, without a
\* winner and of the user, one per Player row
draw_games_AnyStatus(gs, ps, user_id) ==
    {i \in 1..Len(ps) :
        /\ ps[i].game_id \in 1..Len(gs)
        /\ gs[ps[i].game_id].winner_id = None
        /\ ps[i].user_id = user_id}

draw_games(gs, ps, user_id) ==
    {i \in 1..Len(ps) :
        /\ ps[i].game_id \in 1..Len(gs)
        /\ gs[ps[i].game_id].status = "finished"
        /\ gs[ps[i].game_id].winner_id = None
        /\ ps[i].user_id = user_id}

\* lines 235-240 and 273-283: count(Move.id) of Move JOIN Game WHERE
\* Game.winner_id = user AND Move.user_id = user GROUP BY Move.game_id: a
\* function from the games that have such rows to their number
winner_moves_WholeGame(gs, ms, user_id) ==
    [g \in {g \in 1..Len(gs) :
                \E i \in game_moves(ms, g) :
                    gs[g].winner_id = user_id /\ ms[i].user_id = user_id}
        |-> Cardinality(game_moves(ms, g))]

winner_moves(gs, ms, user_id) ==
    [g \in {g \in 1..Len(gs) :
                \E i \in game_moves(ms, g) :
                    gs[g].winner_id = user_id /\ ms[i].user_id = user_id}
        |-> Cardinality({i \in game_moves(ms, g) : ms[i].user_id = user_id})]

\* Service.get_user_stats
get_user_stats(gs, ps, ms, user_id) ==
    LET games_played == Cardinality({i \in 1..Len(ps) : ps[i].user_id = user_id})
        wins == Cardinality({g \in 1..Len(gs) : gs[g].winner_id = user_id})
        draws == Cardinality(draw_games(gs, ps, user_id))
        loses == games_played - wins - draws
        win_ratio == IF games_played # 0 THEN Float(wins, games_played)
                     ELSE Float(0, 1)
        counts == winner_moves(gs, ms, user_id)
        efficiency == IF DOMAIN counts # {}
                      THEN Float(sum(counts, DOMAIN counts),
                                 Cardinality(DOMAIN counts))
                      ELSE NoFloat
    IN  UserStats(user_id, games_played, wins, loses, draws, win_ratio, efficiency)

\* models.LeaderBoard
LeaderBoard(user_id, value, wins, n_games) ==
    [user_id |-> user_id, value |-> value, wins |-> wins, games |-> n_games]

\* lines 258-264: Player.user_id, count(Player.id) GROUP BY Player.user_id
total_games_by_user(ps) ==
    [u \in {ps[i].user_id : i \in 1..Len(ps)}
        |-> Cardinality({i \in 1..Len(ps) : ps[i].user_id = u})]

\* lines 266-272: Game.winner_id, count(Game.id) WHERE winner_id IS NOT NULL
\* GROUP BY Game.winner_id
wins_by_user(gs) ==
    [u \in {gs[g].winner_id : g \in {h \in 1..Len(gs) : gs[h].winner_id # None}}
        |-> Cardinality({g \in 1..Len(gs) : gs[g].winner_id = u})]

\* lines 273-290: avg(cnt) of the winner's moves per game, GROUP BY uid
efficiency_by_user(gs, ms) ==
    [u \in {v \in {ms[i].user_id : i \in 1..Len(ms)} :
                DOMAIN winner_moves(gs, ms, v) # {}}
        |-> LET counts == winner_moves(gs, ms, u)
            IN  Float(sum(counts, DOMAIN counts), Cardinality(DOMAIN counts))]

\* dict.get(key, default)
get(dict, key, default) == IF key \in DOMAIN dict THEN dict[key] ELSE default

\* lines 292-318: the rows of the board before they are sorted
leaderboard_rows(metric, total, wins, efficiency) ==
    LET all_users == (DOMAIN total) \cup (DOMAIN wins) \cup (DOMAIN efficiency)
    IN  IF metric = "wins"
        THEN {LeaderBoard(user, Float(get(wins, user, 0), 1),
                          get(wins, user, 0), get(total, user, 0)) :
                  user \in all_users}
        ELSE IF metric = "efficiency"
        THEN {LeaderBoard(user, efficiency[user],
                          get(wins, user, 0), get(total, user, 0)) :
                  user \in {v \in all_users :
                               v \in DOMAIN efficiency /\ efficiency[v][1] # 0}}
        ELSE {}

\* lines 319-324: the sort keys compared, (-value, user_id) for "wins" and
\* (value, -wins_by_user.get(user_id, 0), user_id) for "efficiency"
key_less_NoWinsTieBreak(metric, x, y, wins) ==
    IF metric = "wins"
    THEN \/ FloatLess(y.value, x.value)
         \/ (x.value = y.value /\ x.user_id < y.user_id)
    ELSE \/ FloatLess(x.value, y.value)
         \/ (x.value = y.value /\ x.user_id < y.user_id)

key_less(metric, x, y, wins) ==
    IF metric = "wins"
    THEN \/ FloatLess(y.value, x.value)
         \/ (x.value = y.value /\ x.user_id < y.user_id)
    ELSE \/ FloatLess(x.value, y.value)
         \/ /\ x.value = y.value
            /\ \/ get(wins, x.user_id, 0) > get(wins, y.user_id, 0)
               \/ /\ get(wins, x.user_id, 0) = get(wins, y.user_id, 0)
                  /\ x.user_id < y.user_id

\* rows.sort(key=...)
RECURSIVE sort(_, _, _)
sort(rows, metric, wins) ==
    IF rows = {} THEN <<>>
    ELSE LET first == CHOOSE x \in rows :
                 \A y \in rows \ {x} : key_less(metric, x, y, wins)
         IN  <<first>> \o sort(rows \ {first}, metric, wins)

\* line 328: rows[:3]
LEADERBOARD_SIZE == 3

head_NoLimit(rows) == rows

head(rows) ==
    SubSeq(rows, 1, IF Len(rows) < LEADERBOARD_SIZE THEN Len(rows)
                    ELSE LEADERBOARD_SIZE)

\* Service.leaderboard
leaderboard(gs, ps, ms, metric) ==
    IF metric \notin {"wins", "efficiency"} THEN "Unsupported metric"
    ELSE head(sort(leaderboard_rows(metric, total_games_by_user(ps),
                                    wins_by_user(gs), efficiency_by_user(gs, ms)),
                   metric, wins_by_user(gs)))

\* existing_players of join_game, line 95: {player.id for player in game.players}
existing_players(ps, g) == game_players(ps, g)

\* Service.join_game, lines 86-100: the guards, Ok when all of them pass
join_guard_NoStatus(n_users, gs, ps, g, u) ==
    IF ~(g \in 1..Len(gs)) THEN HTTPException(404, "Game not found")
    ELSE IF ~(u \in 1..n_users) THEN HTTPException(404, "User not found")
    ELSE IF u \in existing_players(ps, g)
    THEN HTTPException(400, "User already in game")
    ELSE IF Cardinality(game_players(ps, g)) >= 2
    THEN HTTPException(400, "A game can only have up to 2 players")
    ELSE Ok

join_guard(n_users, gs, ps, g, u) ==
    IF ~(g \in 1..Len(gs))
    THEN HTTPException(404, "Game not found")
    ELSE IF gs[g].status # "waiting"
    THEN HTTPException(400, "Cannot join: Game has started")
    ELSE IF ~(u \in 1..n_users)
    THEN HTTPException(404, "User not found")
    ELSE IF u \in existing_players(ps, g)
    THEN HTTPException(400, "User already in game")
    ELSE IF Cardinality(game_players(ps, g)) >= 2
    THEN HTTPException(400, "A game can only have up to 2 players")
    ELSE Ok

\* Service.join_game, lines 86-100: load the game and run the guards
JoinRead(p, g, u) ==
    /\ pc[p] = "idle"
    /\ UNCHANGED db
    /\ IF join_guard(users, games, players, g, u) # Ok
       THEN Return(p, Response("join", g, u, <<>>,
                               join_guard(users, games, players, g, u)))
       ELSE /\ pc' = [pc EXCEPT ![p] = "join_write"]
            /\ req' = [req EXCEPT ![p] =
                   JoinRequest(g, u,
                       IF \E i \in game_players(players, g) :
                              players[i].player_order = 0
                       THEN 1 ELSE 0,
                       Cardinality(game_players(players, g)))]
            /\ UNCHANGED last

\* Service.join_game, lines 102-119: insert the seat, start the game, commit
JoinWrite(p) ==
    /\ pc[p] = "join_write"
    /\ LET r == req[p]
           seat == Player(r.game, r.user, r.order)
       IN  IF ~player_unique_ok(players, seat)
           THEN /\ Return(p, Response("join", r.game, r.user, <<>>, IntegrityError))
                /\ UNCHANGED db
           ELSE /\ ~row_locked(r.game)
                /\ players' = Append(players, seat)
                /\ games' = IF r.n_players + 1 = 2
                            THEN [games EXCEPT ![r.game].status = "in_progress"]
                            ELSE games
                /\ Return(p, Response("join", r.game, r.user, <<>>, Ok))
                /\ UNCHANGED <<users, moves>>

\* Service.move, lines 126-140: the guards, Ok when all of them pass
move_guard_WaitingPlays(gs, ps, g, u) ==
    IF ~(g \in 1..Len(gs)) THEN HTTPException(404, "Game not found")
    ELSE IF gs[g].status = "finished"
    THEN HTTPException(400, "Game not in progress")
    ELSE IF ~(\E i \in game_players(ps, g) : ps[i].user_id = u)
    THEN HTTPException(400, "User not in this game")
    ELSE IF order_to_user(ps, g, gs[g].turn_no % 2) # u
    THEN HTTPException(400, "Not your turn")
    ELSE Ok

move_guard_NoTurn(gs, ps, g, u) ==
    IF ~(g \in 1..Len(gs)) THEN HTTPException(404, "Game not found")
    ELSE IF gs[g].status # "in_progress"
    THEN HTTPException(400, "Game not in progress")
    ELSE IF ~(\E i \in game_players(ps, g) : ps[i].user_id = u)
    THEN HTTPException(400, "User not in this game")
    ELSE Ok

move_guard_NoStatus(gs, ps, g, u) ==
    IF ~(g \in 1..Len(gs))
    THEN HTTPException(404, "Game not found")
    ELSE IF ~(\E i \in game_players(ps, g) : ps[i].user_id = u)
    THEN HTTPException(400, "User not in this game")
    ELSE IF order_to_user(ps, g, gs[g].turn_no % 2) # u
    THEN HTTPException(400, "Not your turn")
    ELSE Ok

move_guard(gs, ps, g, u) ==
    IF ~(g \in 1..Len(gs))
    THEN HTTPException(404, "Game not found")
    ELSE IF gs[g].status # "in_progress"
    THEN HTTPException(400, "Game not in progress")
    ELSE IF ~(\E i \in game_players(ps, g) : ps[i].user_id = u)
    THEN HTTPException(400, "User not in this game")
    ELSE IF order_to_user(ps, g, gs[g].turn_no % 2) # u
    THEN HTTPException(400, "Not your turn")
    ELSE Ok

\* Service.move, lines 126-140: load the game and run the guards.
\* cap bounds the number of moves the model lets requests add.
MoveRead(p, g, u, cap) ==
    /\ pc[p] = "idle"
    /\ UNCHANGED db
    /\ IF move_guard(games, players, g, u) # Ok
       THEN Return(p, Response("move", g, u, <<>>,
                               move_guard(games, players, g, u)))
       ELSE /\ Len(moves) < cap
            /\ pc' = [pc EXCEPT ![p] = "move_read"]
            /\ req' = [req EXCEPT ![p] = MoveRequest(g, u, games[g].turn_no)]
            /\ UNCHANGED last

\* lines 143-150: UPDATE games SET turn_no = turn_no + 1
\* WHERE id = g AND turn_no = expected_turn; the result's rowcount
claim_rowcount_Unconditional(gs, g, expected_turn) == 1

claim_rowcount(gs, g, expected_turn) ==
    IF gs[g].turn_no = expected_turn THEN 1 ELSE 0

\* Service.move, lines 143-151.  The UPDATE waits while another transaction
\* holds the row and then sees the committed row.
MoveClaim(p) ==
    /\ pc[p] = "move_read"
    /\ ~row_locked(req[p].game)
    /\ UNCHANGED db
    /\ IF claim_rowcount(games, req[p].game, req[p].expected_turn) # 1
       THEN Return(p, Response("move", req[p].game, req[p].user, <<>>,
                       HTTPException(400, "Concurrent moves, try again")))
       ELSE /\ pc' = [pc EXCEPT ![p] = "move_claimed"]
            /\ UNCHANGED <<req, last>>

\* line 153
next_move_no_Claimed(expected_turn) == expected_turn

next_move_no(expected_turn) == expected_turn + 1

\* lines 155-159: select(Move.id).where(game_id, row, col).first()
cell_occupied_Unchecked(ms, g, row, col) == FALSE

cell_occupied_Transposed(ms, g, row, col) ==
    \E i \in game_moves(ms, g) : ms[i].row = col /\ ms[i].col = row

cell_occupied(ms, g, row, col) ==
    \E i \in game_moves(ms, g) : ms[i].row = row /\ ms[i].col = col

\* lines 163-167: UPDATE games SET turn_no = expected_turn
\* WHERE id = g AND turn_no = expected_turn
revert_turn(gs, g, expected_turn) ==
    IF gs[g].turn_no = expected_turn
    THEN [gs EXCEPT ![g].turn_no = expected_turn]
    ELSE gs

\* lines 185-197: the game row after the move is evaluated
evaluate_DrawLate(gs, g, ms) ==
    LET winner == find_winner(construct_board(ms, g))
    IN  IF winner # None
        THEN [gs EXCEPT ![g].status = "finished", ![g].winner_id = winner]
        ELSE IF gs[g].turn_no > FULL_BOARD
        THEN [gs EXCEPT ![g].status = "finished"]
        ELSE gs

\* the winner is recorded but the game is left in progress
evaluate_WinnerKeepsPlaying(gs, g, ms) ==
    LET winner == find_winner(construct_board(ms, g))
    IN  IF winner # None
        THEN [gs EXCEPT ![g].winner_id = winner]
        ELSE IF gs[g].turn_no >= FULL_BOARD
        THEN [gs EXCEPT ![g].status = "finished"]
        ELSE gs

evaluate(gs, g, ms) ==
    LET winner == find_winner(construct_board(ms, g))
    IN  IF winner # None
        THEN [gs EXCEPT ![g].status = "finished", ![g].winner_id = winner]
        ELSE IF gs[g].turn_no >= FULL_BOARD
        THEN [gs EXCEPT ![g].status = "finished"]
        ELSE gs

\* Service.move, lines 153-200, inside the transaction that holds the claim:
\* tx_games is the transaction's own view of table games after its UPDATE
MoveFinish(p, row, col) ==
    /\ pc[p] = "move_claimed"
    /\ LET r == req[p]
           g == r.game
           tx_games == [games EXCEPT ![g].turn_no = @ + 1]
           move == Move(g, r.user, next_move_no(r.expected_turn), row, col)
       IN  IF cell_occupied(moves, g, row, col)
           THEN /\ games' = Rollback(games, revert_turn(tx_games, g, r.expected_turn))
                /\ Return(p, Response("move", g, r.user, <<row, col>>,
                               HTTPException(400, "Cell already occupied")))
                /\ UNCHANGED <<users, players, moves>>
           ELSE IF ~move_unique_ok(moves, move)
           THEN /\ games' = Rollback(games, tx_games)
                /\ Return(p, Response("move", g, r.user, <<row, col>>, IntegrityError))
                /\ UNCHANGED <<users, players, moves>>
           ELSE /\ moves' = Append(moves, move)
                /\ games' = evaluate(tx_games, g, moves')
                /\ Return(p, Response("move", g, r.user, <<row, col>>, Ok))
                /\ UNCHANGED <<users, players>>

SubmitMove(p, cap) ==
    \/ \E g \in GameIds, u \in UserIds : MoveRead(p, g, u, cap)
    \/ MoveClaim(p)
    \/ \E row \in Coords, col \in Coords : MoveFinish(p, row, col)

JoinMatch(p) ==
    \/ \E g \in GameIds, u \in UserIds : JoinRead(p, g, u)
    \/ JoinWrite(p)

Next ==
    \E p \in Procs :
        \/ create_user(p)
        \/ \E u \in UserIds : create_game(p, u, MaxGames)
        \/ JoinMatch(p)
        \/ SubmitMove(p, MaxMoves)

Spec == Init /\ [][Next]_vars

\* the metric strings a client passes to GET /leaderboard: the two supported
\* ones, one that differs from a supported one by case only, and the empty one
Metrics == {"wins", "efficiency", "Wins", ""}

\* leaderboard answering an unsupported metric with an error
leaderboard_response_Raises(gs, ps, ms, metric) ==
    IF metric \notin {"wins", "efficiency"}
    THEN HTTPException(400, "Unsupported metric")
    ELSE [status |-> 200, detail |-> leaderboard(gs, ps, ms, metric)]

\* what a call of Service.leaderboard hands back to its caller: the method
\* raises nothing, it returns the list or the string
leaderboard_response(gs, ps, ms, metric) ==
    [status |-> 200, detail |-> leaderboard(gs, ps, ms, metric)]

\* GET /leaderboard: one read-only session, no commit; the response keeps the
\* metric that was asked for
ViewLeaderboard(p, metric) ==
    /\ pc[p] = "idle"
    /\ last' = Response("leaderboard", None, None, <<metric>>,
                        leaderboard_response(games, players, moves, metric))
    /\ UNCHANGED <<users, games, players, moves, pc, req>>

\* ---- the endgame ---------------------------------------------------------------
\* The state after the first four moves of test_draw_detection: users 1 and 2,
\* game 1 created by user 1 and joined by user 2, then
\* (u1,0,0) (u2,0,1) (u1,0,2) (u2,1,1).  Worker 1 is idle, or it still runs a
\* join of user 2 that passed its guards while the game was waiting, before
\* the join that seated user 2 committed.  From here every continuation is
\* explored up to the full board.
EndgameInit ==
    /\ users = 2
    /\ games = << Game("in_progress", None, 4) >>
    /\ players = << Player(1, 1, 0), Player(1, 2, 1) >>
    /\ moves = << Move(1, 1, 1, 0, 0), Move(1, 2, 2, 0, 1),
                  Move(1, 1, 3, 0, 2), Move(1, 2, 4, 1, 1) >>
    /\ \/ /\ pc = [p \in Procs |-> "idle"]
          /\ req = [p \in Procs |-> Idle]
       \/ /\ pc = [p \in Procs |-> IF p = 1 THEN "join_write" ELSE "idle"]
          /\ req = [p \in Procs |-> IF p = 1 THEN JoinRequest(1, 2, 1, 1) ELSE Idle]
    /\ last = Response("move", 1, 2, <<1, 1>>, Ok)

EndgameNext ==
    \E p \in Procs :
        \/ JoinMatch(p)
        \/ SubmitMove(p, FULL_BOARD)

EndgameSpec == EndgameInit /\ [][EndgameNext]_vars

\* ---- the endgame of test_win_detection ----
\* The first four moves of test_win_detection are committed: user 1 holds two
\* cells of row 0 and user 2 two cells of row 1. Every continuation is
\* explored; worker 1 may still hold the stale join of EndgameInit.
WinGameInit ==
    /\ users = 2
    /\ games = << Game("in_progress", None, 4) >>
    /\ players = << Player(1, 1, 0), Player(1, 2, 1) >>
    /\ moves = << Move(1, 1, 1, 0, 0), Move(1, 2, 2, 1, 0),
                  Move(1, 1, 3, 0, 1), Move(1, 2, 4, 1, 1) >>
    /\ \/ /\ pc = [p \in Procs |-> "idle"]
          /\ req = [p \in Procs |-> Idle]
       \/ /\ pc = [p \in Procs |-> IF p = 1 THEN "join_write" ELSE "idle"]
          /\ req = [p \in Procs |-> IF p = 1 THEN JoinRequest(1, 2, 1, 1) ELSE Idle]
    /\ last = Response("move", 1, 2, <<1, 1>>, Ok)

WinGameSpec == WinGameInit /\ [][EndgameNext]_vars

\* ---- the reference callers --------------------------------------------------
\* simulation._play_game, lines 26-42, run by every worker on game 1 after one
\* of the two openings.  A caller reads the view (line 28), stops when the game
\* is not in progress (lines 29-31), and otherwise asks for a move of the
\* view's next_player_id (lines 37-39); whatever the answer, it reads the view
\* again before its next request.  Between the view and the request the other
\* caller may commit, so the view may be stale when the request is handled.
\* The cell is drawn where Service.move first reads it; it is a cell that is
\* empty in the committed rows, which is what the view showed unless the
\* other caller has filled it since.
ViewRequest(g, next_player_id, turn_no) ==
    [op |-> "view", game |-> g, user |-> next_player_id,
     expected_turn |-> turn_no, order |-> 0, n_players |-> 0]

\* the view's status and next_player_id are those get_game_view passes through
PolicyView(p) ==
    /\ pc[p] = "idle"
    /\ req[p].op # "view"
    /\ games[1].status = "in_progress"
    /\ req' = [req EXCEPT ![p] =
           ViewRequest(1, next_player(games, players, 1), games[1].turn_no)]
    /\ UNCHANGED <<users, games, players, moves, pc, last>>

PolicyMove(p) ==
    /\ req[p].op = "view"
    /\ MoveRead(p, req[p].game, req[p].user, FULL_BOARD)

PolicyCells(p) ==
    {cell \in Coords \X Coords : ~cell_occupied(moves, req[p].game, cell[1], cell[2])}

PolicyStep(p) ==
    \/ PolicyView(p)
    \/ PolicyMove(p)
    \/ MoveClaim(p)
    \/ \E cell \in PolicyCells(p) : MoveFinish(p, cell[1], cell[2])

PolicyInit ==
    /\ EndgameInit \/ WinGameInit
    /\ pc = [p \in Procs |-> "idle"]

PolicyNext == \E p \in Procs : PolicyStep(p)

\* the step in which the request of caller p that holds the turn claim is
\* answered; in PolicyNext these are the MoveFinish steps of p
MoveAnswer(p) ==
    /\ pc[p] = "move_claimed"
    /\ pc' = [pc EXCEPT ![p] = "idle"]

\* every caller is a thread that keeps running: a caller that can read the
\* view, send its request or take the row since some point on does so, and a
\* request that holds the row is answered
PolicySpec ==
    /\ PolicyInit
    /\ [][PolicyNext]_vars
    /\ \A p \in Procs :
           /\ WF_vars(PolicyView(p) \/ PolicyMove(p) \/ MoveClaim(p))
           /\ WF_pc(MoveAnswer(p))

\* ---- the endgame with leaderboard requests between the moves ----
QueryNext ==
    \/ EndgameNext
    \/ \E p \in Procs, metric \in Metrics : ViewLeaderboard(p, metric)

QuerySpec == EndgameInit /\ [][QueryNext]_vars

\* ---- one match from its creation to its end ---------------------------------------
\* Three users are registered and nothing else exists.  Every request of any
\* of them is explored, on two workers, with the moves aimed at the five cells
\* that test_win_detection plays: the match goes from waiting to in_progress
\* and, when seat 0 gets row 0, to finished, and a user without a seat is
\* there to ask for one at every stage.
MatchUsers == 3

MatchUserIds == 1..MatchUsers

MatchCells == {<<0, 0>>, <<1, 0>>, <<0, 1>>, <<1, 1>>, <<0, 2>>}

MatchInit ==
    /\ users = MatchUsers
    /\ games = <<>>
    /\ players = <<>>
    /\ moves = <<>>
    /\ pc = [p \in Procs |-> "idle"]
    /\ req = [p \in Procs |-> Idle]
    /\ last = Response("create_user", None, MatchUsers, <<>>, Ok)

MatchNext ==
    \E p \in Procs :
        \/ \E u \in MatchUserIds : create_game(p, u, MaxGames)
        \/ \E g \in GameIds, u \in MatchUserIds : JoinRead(p, g, u)
        \/ JoinWrite(p)
        \/ \E g \in GameIds, u \in MatchUserIds : MoveRead(p, g, u, FULL_BOARD)
        \/ MoveClaim(p)
        \/ \E cell \in MatchCells : MoveFinish(p, cell[1], cell[2])

MatchSpec == MatchInit /\ [][MatchNext]_vars

\* ---- a season of matches ----------------------------------------------------------
\* Four users are registered and the match of test_win_detection is over:
\* user 1 created it, user 2 joined and user 1 won with three moves.  One
\* worker then plays further matches the way simulation._play_game does: it
\* creates a match for some user when no match is open, joins the user next to
\* the creator, and submits moves for the next player of the view.  The cells
\* follow one of five games, told apart by their first cell; which one is
\* chosen with the first move.
LeagueUsers == 4
LeagueGames == 4

LeagueUserIds == 1..LeagueUsers

Opponent(u) == (u % LeagueUsers) + 1

\* seat 0 wins with its third move (test_win_detection)
Seat0WinsIn3 == << <<0, 0>>, <<1, 0>>, <<0, 1>>, <<1, 1>>, <<0, 2>> >>

\* seat 1 wins with its third move (game 2 of test_leaderboard_wins_and_efficiency)
Seat1WinsIn3 == << <<2, 2>>, <<1, 0>>, <<0, 2>>, <<1, 1>>, <<0, 0>>, <<1, 2>> >>

\* seat 0 wins with its fourth move
Seat0WinsIn4 ==
    << <<1, 1>>, <<0, 0>>, <<0, 2>>, <<2, 0>>, <<2, 2>>, <<0, 1>>, <<1, 2>> >>

\* seat 0 wins with its fifth move, the ninth of the game
Seat0WinsIn5 ==
    << <<1, 2>>, <<0, 1>>, <<0, 0>>, <<1, 1>>, <<0, 2>>, <<2, 0>>, <<2, 1>>,
       <<1, 0>>, <<2, 2>> >>

\* nobody wins (the cells of test_draw_detection)
NobodyWins ==
    << <<2, 1>>, <<0, 1>>, <<0, 0>>, <<1, 1>>, <<0, 2>>, <<1, 2>>, <<1, 0>>,
       <<2, 0>>, <<2, 2>> >>

LeagueScripts == {Seat0WinsIn3, Seat1WinsIn3, Seat0WinsIn4, Seat0WinsIn5, NobodyWins}

\* the cells the next move of game g may take
NextCells(g, turn) ==
    IF turn = 0 THEN {script[1] : script \in LeagueScripts}
    ELSE LET first == CHOOSE i \in game_moves(moves, g) : moves[i].move_no = 1
             script == CHOOSE sc \in LeagueScripts :
                           sc[1] = <<moves[first].row, moves[first].col>>
         IN  IF turn < Len(script) THEN {script[turn + 1]} ELSE {}

SeasonInit ==
    /\ users = LeagueUsers
    /\ games = << Game("finished", 1, 5) >>
    /\ players = << Player(1, 1, 0), Player(1, 2, 1) >>
    /\ moves = << Move(1, 1, 1, 0, 0), Move(1, 2, 2, 1, 0), Move(1, 1, 3, 0, 1),
                  Move(1, 2, 4, 1, 1), Move(1, 1, 5, 0, 2) >>
    /\ pc = [p \in Procs |-> "idle"]
    /\ req = [p \in Procs |-> Idle]
    /\ last = Response("move", 1, 1, <<0, 2>>, Ok)

SeasonNext ==
    LET g == Len(games)
    IN  \/ /\ \A h \in 1..Len(games) : games[h].status = "finished"
           /\ \E u \in LeagueUserIds : create_game(1, u, LeagueGames)
        \/ /\ games[g].status = "waiting"
           /\ JoinRead(1, g, Opponent(order_to_user(players, g, 0)))
        \/ JoinWrite(1)
        \/ /\ games[g].status = "in_progress"
           /\ MoveRead(1, g, next_player(games, players, g),
                       LeagueGames * FULL_BOARD)
        \/ MoveClaim(1)
        \/ \E cell \in NextCells(g, req[1].expected_turn) :
               MoveFinish(1, cell[1], cell[2])

SeasonSpec == SeasonInit /\ [][SeasonNext]_vars

\* ---- find_winner as a function of the board ------------------------------------
\* Every board of the two users and empty cells is given to find_winner, by
\* way of a moves table that holds one row per marked cell, in row-major
\* order; most of these boards cannot come out of play.  The answer is kept
\* in field user of the response.
BoardCell(k) == <<(k - 1) \div BOARD_SIZE, (k - 1) % BOARD_SIZE>>

RECURSIVE BoardMarks(_, _)
BoardMarks(f, k) ==
    IF k > BOARD_SIZE * BOARD_SIZE THEN <<>>
    ELSE (IF f[k] = None THEN <<>> ELSE << <<f[k], BoardCell(k)>> >>)
             \o BoardMarks(f, k + 1)

BoardMoves(f) ==
    LET marks == BoardMarks(f, 1)
    IN  [i \in 1..Len(marks) |->
            Move(1, marks[i][1], i, marks[i][2][1], marks[i][2][2])]

BoardInit ==
    /\ users = MaxUsers
    /\ games = <<>>
    /\ players = <<>>
    /\ \E f \in [1..(BOARD_SIZE * BOARD_SIZE) -> {None} \cup UserIds] :
           moves = BoardMoves(f)
    /\ pc = [p \in Procs |-> "idle"]
    /\ req = [p \in Procs |-> Idle]
    /\ last = Response("none", None, None, <<>>, Ok)

FindWinner ==
    /\ last.op = "none"
    /\ last' = Response("find_winner", 1, find_winner(construct_board(moves, 1)),
                        <<>>, Ok)
    /\ UNCHANGED <<db, pc, req>>

BoardNext == FindWinner

BoardSpec == BoardInit /\ [][BoardNext]_vars

\* ---- properties -----------------------------------------------------------------
\* The board read off table moves directly: the user of the move at a cell
CellOwnerIn(ms, g, cell) ==
    IF \E i \in 1..Len(ms) :
           ms[i].game_id = g /\ ms[i].row = cell[1] /\ ms[i].col = cell[2]
    THEN ms[CHOOSE i \in 1..Len(ms) :
                ms[i].game_id = g /\ ms[i].row = cell[1] /\ ms[i].col = cell[2]].user_id
    ELSE None

MarksIn(ms, g) == {cell \in Coords \X Coords : CellOwnerIn(ms, g, cell) # None}

MoveRowsIn(ms, g) == {ms[i] : i \in {k \in 1..Len(ms) : ms[k].game_id = g}}

SeatsIn(ps, g) == {ps[i] : i \in {k \in 1..Len(ps) : ps[k].game_id = g}}

\* the three rows, the three columns and the two diagonals, as sets of cells
Lines ==
    {{<<r, c>> : c \in Coords} : r \in Coords}
        \cup {{<<r, c>> : r \in Coords} : c \in Coords}
        \cup {{<<i, i>> : i \in Coords}, {<<i, BOARD_SIZE - 1 - i>> : i \in Coords}}

OwnsLine(g, u) ==
    \E line \in Lines : \A cell \in line : CellOwnerIn(moves, g, cell) = u

LastMover(g) ==
    LET rows == MoveRowsIn(moves, g)
    IN  IF rows = {} THEN None
        ELSE (CHOOSE m \in rows : \A n \in rows : n.move_no <= m.move_no).user_id

MoveInFlight(p) == pc[p] \in {"move_read", "move_claimed"}

\* C1: at most one move is ever accepted per move index of a match: no two
\* committed moves of a match carry the same move_no, and it is the turn claim
\* that guarantees it: a request that holds the claim never carries the index
\* of a committed move.
C1_AtMostOneMovePerIndex ==
    /\ \A i, j \in 1..Len(moves) :
           (i # j /\ moves[i].game_id = moves[j].game_id)
               => moves[i].move_no # moves[j].move_no
    /\ \A p \in Procs :
           pc[p] = "move_claimed" =>
               \A m \in MoveRowsIn(moves, req[p].game) :
                   m.move_no # req[p].expected_turn + 1

\* a request is still in flight for a turn slot whose move is already committed
C1_Witness ==
    \E p \in Procs :
        /\ pc[p] = "move_read"
        /\ games[req[p].game].turn_no > req[p].expected_turn
        /\ \E m \in MoveRowsIn(moves, req[p].game) :
               m.move_no = req[p].expected_turn + 1

\* C2: in every committed state the turn counter of a match equals the number
\* of its committed moves.
C2_TurnCounterCountsMoves ==
    \A g \in 1..Len(games) :
        games[g].turn_no = Cardinality(MoveRowsIn(moves, g))

\* moves have been accepted, a request has just failed on an occupied cell
\* after its claim, and another transaction holds a claim that is not committed
C2_Witness ==
    /\ last.op = "move"
    /\ last.detail = "Cell already occupied"
    /\ games[last.game].turn_no >= 2
    /\ \E p \in Procs : pc[p] = "move_claimed" /\ req[p].game = last.game

\* two requests of the same user for the same turn slot are in flight together
C3_Twins(p, q) ==
    /\ p # q
    /\ MoveInFlight(p) /\ MoveInFlight(q)
    /\ req[p].game = req[q].game
    /\ req[p].user = req[q].user
    /\ req[p].expected_turn = req[q].expected_turn

C3_Completes(p) == MoveInFlight(p) /\ pc'[p] = "idle"

C3_Conflict ==
    /\ last'.status = 400
    /\ last'.detail = "Concurrent moves, try again"
    /\ UNCHANGED db

\* the request of p is accepted: one new mark, of p's user, on the target
C3_OneNewMark(p) ==
    LET g == req[p].game
    IN  /\ last'.status = 200
        /\ Len(moves') = Len(moves) + 1
        /\ ~(last'.target \in MarksIn(moves, g))
        /\ MarksIn(moves', g) = MarksIn(moves, g) \cup {last'.target}
        /\ CellOwnerIn(moves', g, last'.target) = req[p].user
        /\ games'[g].turn_no = req[p].expected_turn + 1

C3_OtherSeat(p) ==
    LET others == {s \in SeatsIn(players, req[p].game) : s.user_id # req[p].user}
    IN  \E s \in others : next_player(games', players', req[p].game) = s.user_id

\* C3 as stated: of two simultaneous calls of the same user for the same turn
\* slot, the first to end returns success, the board has one new mark and the
\* turn belongs to the other seat; a call that ends after the slot was taken
\* returns Conflict and changes nothing.
C3_Original ==
    [][\A p \in Procs :
          C3_Completes(p) =>
              IF games[req[p].game].turn_no # req[p].expected_turn
              THEN C3_Conflict
              ELSE (\E q \in Procs : C3_Twins(p, q))
                       => (C3_OneNewMark(p) /\ C3_OtherSeat(p))]_vars

\* C3 amended: the first of the two calls to end returns success when its
\* target cell is empty, and then the board has one new mark and the turn
\* belongs to the other seat unless the move finished the match; when its
\* target is occupied it returns CellOccupied and changes nothing.  A call that
\* ends after the slot was taken returns Conflict and changes nothing.
C3_Amended ==
    [][\A p \in Procs :
          C3_Completes(p) =>
              IF games[req[p].game].turn_no # req[p].expected_turn
              THEN C3_Conflict
              ELSE (\E q \in Procs : C3_Twins(p, q))
                       => IF last'.target \in MarksIn(moves, req[p].game)
                          THEN /\ last'.detail = "Cell already occupied"
                               /\ UNCHANGED db
                          ELSE /\ C3_OneNewMark(p)
                               /\ \/ C3_OtherSeat(p)
                                  \/ games'[req[p].game].status = "finished"]_vars

\* one of two simultaneous calls was accepted, the other has just got Conflict
C3_Witness ==
    /\ last.op = "move"
    /\ last.detail = "Concurrent moves, try again"
    /\ \E m \in MoveRowsIn(moves, last.game) :
           m.user_id = last.user /\ m.move_no = games[last.game].turn_no

\* C4: no two committed moves of a match occupy the same cell, and it is the
\* occupancy check of the handler that rejects the second one: no move request
\* ever fails on the store's constraint.
C4_NoTwoMovesShareACell ==
    /\ \A i, j \in 1..Len(moves) :
           (i # j /\ moves[i].game_id = moves[j].game_id)
               => <<moves[i].row, moves[i].col>> # <<moves[j].row, moves[j].col>>
    /\ ~(last.op = "move" /\ last.detail = "IntegrityError")

\* a request aimed at an occupied cell was rejected while another request for
\* the same match was in flight
C4_Witness ==
    /\ last.op = "move"
    /\ last.detail = "Cell already occupied"
    /\ last.target \in MarksIn(moves, last.game)
    /\ \E p \in Procs : pc[p] = "move_read" /\ req[p].game = last.game

C5_Step ==
    \A p \in Procs :
        (pc[p] = "move_claimed" /\ pc'[p] = "idle") =>
            LET g == req[p].game
                u == req[p].user
            IN  IF last'.target \in MarksIn(moves, g)
                THEN /\ last'.status = 400
                     /\ last'.detail = "Cell already occupied"
                     /\ moves' = moves
                     /\ games' = games
                     /\ next_player(games', players', g) = u
                ELSE /\ last'.status = 200
                     /\ MoveRowsIn(moves', g) \ MoveRowsIn(moves, g) =
                            {Move(g, u, games[g].turn_no + 1,
                                  last'.target[1], last'.target[2])}
                     /\ games'[g].turn_no = games[g].turn_no + 1

C5_After ==
    (last.op = "move" /\ last.detail = "Cell already occupied") =>
        /\ games[last.game].status = "in_progress"
        /\ games[last.game].turn_no = Cardinality(MoveRowsIn(moves, last.game))
        /\ order_to_user(players, last.game, games[last.game].turn_no % 2)
               = last.user
        /\ MarksIn(moves, last.game) # Coords \X Coords

\* C5: a move request of the user whose turn it is that targets an occupied
\* cell returns CellOccupied, records no move and leaves the turn counter, so
\* that user is still the next player; the request of that user for the same
\* slot to an empty cell is accepted.
C5_CellOccupiedKeepsTurn == [][C5_Step]_vars /\ []C5_After

\* after CellOccupied the same user has a new request in flight for the slot
C5_Witness ==
    /\ last.op = "move"
    /\ last.detail = "Cell already occupied"
    /\ \E p \in Procs :
           /\ MoveInFlight(p)
           /\ req[p].game = last.game
           /\ req[p].user = last.user
           /\ req[p].expected_turn = games[last.game].turn_no

\* C6 as stated: the move_no values of a match are exactly 0..turn_no-1.
C6_Original ==
    \A g \in 1..Len(games) :
        {m.move_no : m \in MoveRowsIn(moves, g)} = 0..(games[g].turn_no - 1)

\* C6 amended: every accepted move carries the claimed turn value plus one, so
\* the move_no values of a match are exactly 1..turn_no.
C6_Amended ==
    \A g \in 1..Len(games) :
        /\ {m.move_no : m \in MoveRowsIn(moves, g)} = 1..games[g].turn_no
        /\ Cardinality(MoveRowsIn(moves, g)) = games[g].turn_no

\* a second move has just been accepted
C6_Witness ==
    /\ last.op = "move"
    /\ last.status = 200
    /\ games[last.game].turn_no >= 2

\* C7: once a match is finished, its row, its moves and its seats never
\* change again.
C7_FinishedIsFinal ==
    [][\A g \in 1..Len(games) :
          games[g].status = "finished" =>
              /\ games'[g] = games[g]
              /\ MoveRowsIn(moves', g) = MoveRowsIn(moves, g)
              /\ SeatsIn(players', g) = SeatsIn(players, g)]_vars

\* a join that had passed its guards before the match started has ended after
\* the match was finished
C7_Witness ==
    /\ last.op = "join"
    /\ last.detail = "IntegrityError"
    /\ games[last.game].status = "finished"

\* C8: whenever the committed board of a match holds a line of one user, the
\* match is finished with that user as winner and that user made the last
\* move; a winner is set only when the board holds a line of that user.
C8_WinnerIffLine ==
    \A g \in 1..Len(games) :
        /\ \A u \in UserIds :
               OwnsLine(g, u) =>
                   /\ games[g].status = "finished"
                   /\ games[g].winner_id = u
                   /\ LastMover(g) = u
        /\ games[g].winner_id # None => OwnsLine(g, games[g].winner_id)

\* the move just accepted completed a line and made its user the winner
C8_Witness ==
    /\ last.op = "move"
    /\ last.status = 200
    /\ games[last.game].winner_id = last.user
    /\ OwnsLine(last.game, last.user)

\* C9: a match is finished without a winner exactly when nine moves are
\* accepted and the board holds no line.
C9_DrawOnlyOnFullBoard ==
    \A g \in 1..Len(games) :
        LET n == Cardinality(MoveRowsIn(moves, g))
            no_line == \A u \in UserIds : ~OwnsLine(g, u)
        IN  /\ (games[g].status = "finished" /\ games[g].winner_id = None)
                   => /\ n = BOARD_SIZE * BOARD_SIZE
                      /\ games[g].turn_no = BOARD_SIZE * BOARD_SIZE
                      /\ no_line
            /\ (n = BOARD_SIZE * BOARD_SIZE /\ no_line)
                   => (games[g].status = "finished" /\ games[g].winner_id = None)

\* the ninth move was accepted and the match ended in a draw
C9_Witness ==
    /\ last.op = "move"
    /\ last.status = 200
    /\ games[last.game].status = "finished"
    /\ games[last.game].winner_id = None

\* the guard of a join as the claim states it
JoinGuardHolds(g, u) ==
    /\ g \in 1..Len(games)
    /\ games[g].status = "waiting"
    /\ {s.player_order : s \in SeatsIn(players, g)} = {0}
    /\ u \in 1..users
    /\ \A s \in SeatsIn(players, g) : s.user_id # u

\* C10: a join whose guard holds succeeds: no join request is rejected in a
\* state where the match is waiting with seat 0 only and the user exists and
\* holds no seat in it.
C10_JoinSucceedsWhenGuardHolds ==
    (last.op = "join" /\ last.status # 200)
        => ~JoinGuardHolds(last.game, last.user)

\* a join request is answered without having passed its guards
JoinRefused == last'.op = "join" /\ pc' = pc

C11_Step ==
    /\ (/\ JoinRefused
         /\ last'.game \in 1..Len(games)
         /\ games[last'.game].status # "waiting")
            => /\ last'.status = 400
               /\ last'.detail = "Cannot join: Game has started"
               /\ UNCHANGED db
    /\ \A p \in Procs :
           (pc[p] = "idle" /\ pc'[p] = "join_write")
               => games[req'[p].game].status = "waiting"
    /\ \A g \in 1..Len(games) :
           (games[g].status # "waiting" \/ Cardinality(SeatsIn(players, g)) >= 2)
               => SeatsIn(players', g) = SeatsIn(players, g)

C11_AtMostTwoSeats ==
    \A g \in 1..Len(games) : Cardinality(SeatsIn(players, g)) <= 2

\* C11: a join request on a match that is in progress or finished is rejected
\* with 400 "Cannot join: Game has started" and changes nothing; no request
\* passes the guards of a join on such a match; the seats of a match that has
\* started, or that has two seats, never change, so a match never has a third
\* seat.
C11_JoinNeedsWaiting == [][C11_Step]_vars /\ []C11_AtMostTwoSeats

\* a user without a seat has just been refused on a finished match of two seats
C11_Witness ==
    /\ last.op = "join"
    /\ last.detail = "Cannot join: Game has started"
    /\ games[last.game].status = "finished"
    /\ Cardinality(SeatsIn(players, last.game)) = 2
    /\ \A s \in SeatsIn(players, last.game) : s.user_id # last.user

\* a move request is answered without having passed its guards
MoveRefused == last'.op = "move" /\ pc' = pc

\* a move request is answered, at whatever statement
MoveAnswered ==
    /\ last'.op = "move"
    /\ \/ pc' = pc
       \/ \E p \in Procs : MoveInFlight(p) /\ pc'[p] = "idle"

\* user u holds a seat of game g whose parity is not that of the turn counter
OffTurn(g, u) ==
    /\ g \in 1..Len(games)
    /\ games[g].status = "in_progress"
    /\ \E s \in SeatsIn(players, g) :
           s.user_id = u /\ s.player_order # games[g].turn_no % 2

C12_Step ==
    /\ \A g \in 1..Len(games) :
           MoveRowsIn(moves', g) # MoveRowsIn(moves, g) =>
               /\ games'[g].turn_no = games[g].turn_no + 1
               /\ \A m \in MoveRowsIn(moves', g) \ MoveRowsIn(moves, g) :
                      \E s \in SeatsIn(players, g) :
                          /\ s.user_id = m.user_id
                          /\ s.player_order = games[g].turn_no % 2
    /\ (MoveAnswered /\ OffTurn(last'.game, last'.user))
           => (last'.status # 200 /\ UNCHANGED db)
    /\ (MoveRefused /\ OffTurn(last'.game, last'.user))
           => (last'.status = 400 /\ last'.detail = "Not your turn")

C12_SeatOfEveryMove ==
    \A g \in 1..Len(games) :
        \A m \in MoveRowsIn(moves, g) :
            \E s \in SeatsIn(players, g) :
                s.user_id = m.user_id /\ s.player_order = (m.move_no - 1) % 2

\* C12: the move that takes the turn counter of a match from k to k+1 is made
\* by the user of seat k mod 2; a move request of a seated user whose seat is
\* not the one to move is answered with an error and changes nothing, and it
\* is the turn guard that answers it, with 400 "Not your turn".
C12_MovesAlternate == [][C12_Step]_vars /\ []C12_SeatOfEveryMove

\* the user who made the last accepted move has asked again and was refused
C12_Witness ==
    /\ last.op = "move"
    /\ last.detail = "Not your turn"
    /\ games[last.game].turn_no > 4
    /\ \E m \in MoveRowsIn(moves, last.game) :
           m.user_id = last.user /\ m.move_no = games[last.game].turn_no

NotInProgress(g) == g \in 1..Len(games) /\ games[g].status # "in_progress"

C13_Step ==
    /\ (MoveRefused /\ NotInProgress(last'.game))
           => /\ last'.status = 400
              /\ last'.detail = "Game not in progress"
              /\ UNCHANGED db
    /\ (MoveAnswered /\ NotInProgress(last'.game))
           => (last'.status # 200 /\ UNCHANGED db)
    /\ \A p \in Procs :
           (pc[p] = "idle" /\ pc'[p] = "move_read")
               => games[req'[p].game].status = "in_progress"
    /\ \A g \in 1..Len(games) :
           NotInProgress(g) =>
               /\ MoveRowsIn(moves', g) = MoveRowsIn(moves, g)
               /\ games'[g].turn_no = games[g].turn_no

\* C13: a move request on a match that is waiting or finished is rejected
\* with 400 "Game not in progress" and changes nothing; no request passes the
\* guards of a move on such a match, a request that is answered after the
\* match has finished is answered with an error, and the moves and the turn
\* counter of a match that is not in progress never change.
C13_MoveNeedsInProgress == [][C13_Step]_vars

\* a seated user has just been refused a move on the finished match
C13_Witness ==
    /\ last.op = "move"
    /\ last.detail = "Game not in progress"
    /\ games[last.game].status = "finished"
    /\ \E s \in SeatsIn(players, last.game) : s.user_id = last.user

\* the creator has just been refused a move on the match that waits with one seat
C13_WitnessWaiting ==
    /\ last.op = "move"
    /\ last.detail = "Game not in progress"
    /\ games[last.game].status = "waiting"
    /\ Cardinality(SeatsIn(players, last.game)) = 1
    /\ \E s \in SeatsIn(players, last.game) : s.user_id = last.user

C14_Step ==
    /\ (last'.op \in {"join", "move"} /\ last'.status # 200) => UNCHANGED db
    /\ last' = last => UNCHANGED db

\* C14: a join or move request that is answered with an error leaves every
\* table as it was when the answer is given, and no step of a request before
\* its answer changes a table: the committed moves, seats, status, winner and
\* turn counter of every match are those from before the request.
C14_ErrorsChangeNothing == [][C14_Step]_vars

\* a user without a seat has just been refused a move while another request
\* holds a turn claim that is not committed
C14_Witness ==
    /\ last.op = "move"
    /\ last.detail = "User not in this game"
    /\ \E p \in Procs : pc[p] = "move_claimed" /\ req[p].game = last.game

\* user u holds the three cells of a row, a column or a diagonal of game 1
FillsTriple(u) == OwnsLine(1, u)

RECURSIVE LastFirst(_, _)
LastFirst(ms, ids) ==
    IF ids = {} THEN <<>>
    ELSE LET latest == CHOOSE i \in ids : \A j \in ids : j <= i
         IN  <<latest>> \o LastFirst(ms, ids \ {latest})

\* C16: the board of the view of a match is a projection of its committed
\* moves: a cell holds user u exactly when a committed move of u is on that
\* cell, the number of marked cells is the turn counter, and building the
\* board again from the same rows, in whatever order they come, gives the
\* same board.
C16_BoardIsProjection ==
    \A g \in 1..Len(games) :
        LET view == get_game_view(games, players, moves, g)
        IN  /\ \A cell \in Coords \X Coords, u \in 1..users :
                   view.board[cell] = u
                       <=> \E m \in MoveRowsIn(moves, g) :
                               m.user_id = u /\ <<m.row, m.col>> = cell
            /\ \A cell \in Coords \X Coords : view.board[cell] \in 0..users
            /\ Cardinality({cell \in Coords \X Coords : view.board[cell] # None})
                   = games[g].turn_no
            /\ view.board =
                   construct_board_from(EmptyBoard, moves,
                                        LastFirst(moves, game_moves(moves, g)))

\* a move off the diagonal has just been accepted and the view shows it
C16_Witness ==
    /\ last.op = "move"
    /\ last.status = 200
    /\ last.target[1] # last.target[2]
    /\ games[last.game].turn_no > 4
    /\ get_game_view(games, players, moves, last.game).board[last.target] = last.user

\* the statistics read off the tables directly
SeatedGames(u) ==
    {g \in 1..Len(games) : \E s \in SeatsIn(players, g) : s.user_id = u}

WonGames(u) == {g \in 1..Len(games) : games[g].winner_id = u}

DrawnGames(u) ==
    {g \in SeatedGames(u) :
        games[g].status = "finished" /\ games[g].winner_id = None}

MovesMade(u, g) == Cardinality({m \in MoveRowsIn(moves, g) : m.user_id = u})

TotalWinningMoves(u) == sum([g \in WonGames(u) |-> MovesMade(u, g)], WonGames(u))

\* C17: the statistics of a user are: games, the number of matches in which
\* the user holds a seat; wins, the number of matches the user has won; draws,
\* the number of finished matches without winner in which the user holds a
\* seat; loses, games minus wins minus draws; win_ratio, wins over games, and
\* 0 when the user has no games.
C17_StatsAreCounts ==
    \A u \in 1..users :
        LET stats == get_user_stats(games, players, moves, u)
        IN  /\ stats.user_id = u
            /\ stats.games = Cardinality(SeatedGames(u))
            /\ stats.wins = Cardinality(WonGames(u))
            /\ stats.draws = Cardinality(DrawnGames(u))
            /\ stats.loses = stats.games - stats.wins - stats.draws
            /\ stats.loses >= 0
            /\ stats.win_ratio[1] * stats.games = stats.wins * stats.win_ratio[2]
            /\ stats.games = 0 => stats.win_ratio = <<0, 1>>

\* one user has won, drawn and lost a match, and another has never played
C17_Witness ==
    /\ \E u \in 1..users :
           LET stats == get_user_stats(games, players, moves, u)
           IN  stats.wins >= 1 /\ stats.draws >= 1 /\ stats.loses >= 1
    /\ \E v \in 1..users :
           LET stats == get_user_stats(games, players, moves, v)
           IN  stats.games = 0 /\ stats.win_ratio = <<0, 1>>
    /\ \A g \in 1..Len(games) : games[g].status = "finished"

\* C18: the efficiency of a user is absent when the user has won no match,
\* and else it is the number of moves the user made in the matches the user
\* won divided by the number of those matches; a match that its winner won
\* with the winner's third move counts 3.
C18_EfficiencyIsMean ==
    \A u \in 1..users :
        LET stats == get_user_stats(games, players, moves, u)
        IN  /\ WonGames(u) = {} => stats.efficiency = NoFloat
            /\ WonGames(u) # {} =>
                   /\ stats.efficiency # NoFloat
                   /\ stats.efficiency[1] * Cardinality(WonGames(u))
                          = stats.efficiency[2] * TotalWinningMoves(u)
            /\ \A g \in WonGames(u) :
                   games[g].turn_no \in {5, 6} =>
                       /\ winner_moves(games, moves, u)[g] = 3
                       /\ WonGames(u) = {g} => stats.efficiency = <<3, 1>>

\* a user has won one match with three moves and one with four: 7/2
C18_Witness ==
    \E u \in 1..users :
        /\ Cardinality(WonGames(u)) = 2
        /\ {games[g].turn_no : g \in WonGames(u)} = {5, 7}
        /\ get_user_stats(games, players, moves, u).efficiency = <<7, 2>>

Wins(u) == Cardinality(WonGames(u))

\* u comes before v on the board of wins
AheadByWins(u, v) == Wins(u) > Wins(v) \/ (Wins(u) = Wins(v) /\ u < v)

OnBoard(board) == {board[i].user_id : i \in 1..Len(board)}

Seated == {u \in 1..users : SeatedGames(u) # {}}

\* the board holds at most three rows, each with the wins of its user, in
\* the order of AheadByWins
WinsBoardInOrder(board) ==
    /\ Len(board) <= 3
    /\ \A i \in 1..Len(board) :
           /\ board[i].user_id \in 1..users
           /\ board[i].wins = Wins(board[i].user_id)
           /\ board[i].value = <<Wins(board[i].user_id), 1>>
    /\ \A i, j \in 1..Len(board) :
           i < j => AheadByWins(board[i].user_id, board[j].user_id)

\* C19 as stated: the board of wins holds at most three users, by wins
\* descending and user id ascending, and no user who is not on it comes
\* before a user who is.
C19_Original ==
    LET board == leaderboard(games, players, moves, "wins")
    IN  /\ WinsBoardInOrder(board)
        /\ \A u \in (1..users) \ OnBoard(board) :
               \A v \in OnBoard(board) : ~AheadByWins(u, v)

\* C19 amended: the board of wins ranks the users who hold a seat in some
\* match: it holds the first three of them, or all when they are fewer, by
\* wins descending and user id ascending, and no seated user who is not on
\* it comes before a user who is; a user without a seat is never on it.
C19_Amended ==
    LET board == leaderboard(games, players, moves, "wins")
        seated == Seated
    IN  /\ WinsBoardInOrder(board)
        /\ OnBoard(board) \subseteq seated
        /\ Len(board) = (IF Cardinality(seated) < 3 THEN Cardinality(seated)
                         ELSE 3)
        /\ \A u \in seated \ OnBoard(board) :
               \A v \in OnBoard(board) : ~AheadByWins(u, v)

\* four users hold seats, the one left out has the highest id among those
\* without a win, and the order of the three on the board goes against the
\* order of their ids
C19_Witness ==
    LET board == leaderboard(games, players, moves, "wins")
    IN  /\ Cardinality(Seated) = 4
        /\ Len(board) = 3
        /\ board[1].wins > board[2].wins
        /\ board[1].user_id > board[2].user_id
        /\ board[2].wins = board[3].wins
        /\ board[2].user_id < board[3].user_id

\* the efficiency read off the tables: moves made in the matches won, over
\* the number of those matches
LessEfficiency(u, v) ==
    TotalWinningMoves(u) * Wins(v) < TotalWinningMoves(v) * Wins(u)

SameEfficiency(u, v) ==
    TotalWinningMoves(u) * Wins(v) = TotalWinningMoves(v) * Wins(u)

\* u comes before v on the board of efficiency
AheadByEfficiency(u, v) ==
    \/ LessEfficiency(u, v)
    \/ /\ SameEfficiency(u, v)
       /\ Wins(u) > Wins(v) \/ (Wins(u) = Wins(v) /\ u < v)

Winners == {u \in 1..users : Wins(u) >= 1}

\* C20: the board of efficiency holds the first three of the users with at
\* least one win, or all when they are fewer, by efficiency ascending, then
\* wins descending, then user id ascending; no winner who is not on it comes
\* before a user who is; a user who won every match with three moves comes
\* before a user who needed more.
C20_EfficiencyBoard ==
    LET board == leaderboard(games, players, moves, "efficiency")
        winners == Winners
    IN  /\ Len(board) <= 3
        /\ Len(board) = (IF Cardinality(winners) < 3 THEN Cardinality(winners)
                         ELSE 3)
        /\ OnBoard(board) \subseteq winners
        /\ \A i \in 1..Len(board) :
               /\ board[i].wins = Wins(board[i].user_id)
               /\ board[i].value[1] * Wins(board[i].user_id)
                      = board[i].value[2] * TotalWinningMoves(board[i].user_id)
        /\ \A i, j \in 1..Len(board) :
               i < j => AheadByEfficiency(board[i].user_id, board[j].user_id)
        /\ \A u \in winners \ OnBoard(board) :
               \A v \in OnBoard(board) : ~AheadByEfficiency(u, v)
        /\ \A i, j \in 1..Len(board) :
               (board[i].value = <<3, 1>> /\ FloatLess(<<3, 1>>, board[j].value))
                   => i < j

\* two users have efficiency 3 and the one with more wins and the higher id
\* comes first; the third user on the board needed more moves
C20_Witness ==
    LET board == leaderboard(games, players, moves, "efficiency")
    IN  /\ Len(board) = 3
        /\ board[1].value = <<3, 1>>
        /\ board[2].value = <<3, 1>>
        /\ board[1].wins > board[2].wins
        /\ board[1].user_id > board[2].user_id
        /\ FloatLess(<<3, 1>>, board[3].value)

\* four users have won a match and the slowest of them is not on the board
C20_WitnessFourWinners ==
    LET board == leaderboard(games, players, moves, "efficiency")
    IN  /\ Cardinality(Winners) = 4
        /\ Len(board) = 3
        /\ \E u \in Winners \ OnBoard(board) :
               \A v \in OnBoard(board) : LessEfficiency(v, u)

\* ---- C21 ----
\* the user who created the game: the user of the game's first Player row
Creator(g) ==
    LET rows == {i \in 1..Len(players) : players[i].game_id = g}
    IN  players[CHOOSE i \in rows : \A j \in rows : i <= j].user_id

\* C21: in the view of every game the next player id is absent unless the
\* game is in progress; in a game in progress it is the user of the seat whose
\* player_order is turn_no mod 2, and in a game in progress with turn_no 0 it
\* is the creator, who holds seat 0.
C21_NextPlayerInView ==
    \A g \in 1..Len(games) :
        LET view == get_game_view(games, players, moves, g)
        IN  /\ view.status = games[g].status
            /\ games[g].status # "in_progress" => view.next_player_id = None
            /\ games[g].status = "in_progress" =>
                   /\ view.next_player_id # None
                   /\ \E seat \in SeatsIn(players, g) :
                          /\ seat.player_order = games[g].turn_no % 2
                          /\ seat.user_id = view.next_player_id
                   /\ games[g].turn_no = 0 =>
                          /\ view.next_player_id = Creator(g)
                          /\ Player(g, Creator(g), 0) \in SeatsIn(players, g)

\* a join has just started the game: the view names the creator, not the
\* user who joined, as the next player
C21_Witness ==
    /\ last.op = "join" /\ last.status = 200
    /\ games[last.game].status = "in_progress"
    /\ games[last.game].turn_no = 0
    /\ get_game_view(games, players, moves, last.game).next_player_id
           = Creator(last.game)
    /\ Creator(last.game) # last.user

\* the game is finished after an odd number of moves and the view names nobody
C21_WitnessFinished ==
    /\ Len(games) = 1 /\ games[1].status = "finished"
    /\ games[1].turn_no % 2 = 1
    /\ get_game_view(games, players, moves, 1).next_player_id = None

\* ---- C22 ----
\* a step in which create_game has answered
CreateGameAnswered ==
    /\ last'.op = "create_game"
    /\ pc' = pc
    /\ <<last, db>>' # <<last, db>>

C22_Step ==
    CreateGameAnswered =>
        IF last'.user \in 1..users
        THEN /\ last'.status = 200
             /\ last'.game = Len(games) + 1
             /\ games' = Append(games, Game("waiting", None, 0))
             /\ MoveRowsIn(moves', last'.game) = {}
             /\ SeatsIn(players', last'.game) = {Player(last'.game, last'.user, 0)}
             /\ Len(players') = Len(players) + 1
             /\ \A g \in 1..Len(games) : SeatsIn(players', g) = SeatsIn(players, g)
             /\ UNCHANGED <<users, moves>>
        ELSE /\ last'.status = 404
             /\ last'.detail = "User not found"
             /\ UNCHANGED db

\* C22: create_game by a registered user adds one game with status waiting,
\* turn_no 0, no winner and no moves, and one seat with player_order 0 held by
\* that user; create_game with an id that is not a registered user answers
\* 404 and leaves the games and the seats as they were.
C22_CreateGame == [][C22_Step]_vars

\* the second registered user has created a game
C22_Witness ==
    /\ last.op = "create_game" /\ last.status = 200 /\ last.user = 2
    /\ games[last.game] = Game("waiting", None, 0)
    /\ SeatsIn(players, last.game) = {Player(last.game, 2, 0)}

\* one user is registered and create_game for user id 2 was answered 404
C22_WitnessNotFound ==
    /\ last.op = "create_game" /\ last.status = 404 /\ last.user = 2
    /\ users = 1
    /\ games = <<>> /\ players = <<>>

\* ---- C23 ----
\* a step that commits one more move of game g
MoveAccepted(g) ==
    /\ Len(moves') = Len(moves) + 1
    /\ moves'[Len(moves')].game_id = g
    /\ last'.op = "move" /\ last'.status = 200 /\ last'.game = g

C23_Step ==
    /\ \A g \in 1..Len(games) :
           /\ games'[g].turn_no >= games[g].turn_no
           /\ games'[g].turn_no <= games[g].turn_no + 1
           /\ games'[g].turn_no = games[g].turn_no + 1 <=> MoveAccepted(g)
    /\ \A g \in (Len(games) + 1)..Len(games') : games'[g].turn_no = 0
    /\ (MoveAnswered /\ last'.status = 200) => MoveAccepted(last'.game)
    /\ (last' # last /\ last'.status # 200) =>
           \A g \in 1..Len(games) : games'[g].turn_no = games[g].turn_no

\* C23: the committed turn_no of a game is 0 when the game is created and
\* never decreases; a step raises it, by exactly 1, exactly when it commits an
\* accepted move of that game, and a request that is answered with an error
\* leaves it as it was.
C23_TurnCounterMonotone == [][C23_Step]_vars

\* after two accepted moves a move onto an occupied cell was refused, and the
\* committed counter is still 2
C23_Witness ==
    /\ last.op = "move" /\ last.detail = "Cell already occupied"
    /\ games[last.game].turn_no = 2
    /\ Cardinality(MoveRowsIn(moves, last.game)) = 2

\* ---- C24 ----
\* a step in which leaderboard has answered a metric it does not support
UnsupportedAnswered ==
    /\ last'.op = "leaderboard"
    /\ last'.target[1] \notin {"wins", "efficiency"}
    /\ <<last.op, last.target>> # <<last'.op, last'.target>>

C24_Step ==
    UnsupportedAnswered =>
        /\ last'.status = 200
        /\ last'.detail = "Unsupported metric"
        /\ UNCHANGED <<db, pc, req>>

\* C24: leaderboard called with a metric that is neither "wins" nor
\* "efficiency" returns normally, the value returned is the string
\* "Unsupported metric", and no table and no request in flight is changed.
C24_UnsupportedMetric == [][C24_Step]_vars

\* the leaderboard was asked for "Wins" after the game was won: the answer is
\* the sentinel although a ranked list for "wins" exists
C24_Witness ==
    /\ last.op = "leaderboard"
    /\ last.target = <<"Wins">>
    /\ last.status = 200
    /\ last.detail = "Unsupported metric"
    /\ games[1].winner_id # None
    /\ Len(leaderboard(games, players, moves, "wins")) = 2

\* ---- C25 ----
\* the rows of table games as they are read with the turn counter of game g
\* at t
WithTurn(g, t) == [games EXCEPT ![g].turn_no = t]

C25_Step ==
    \A p \in Procs :
        (/\ pc[p] = "move_claimed" /\ pc'[p] = "idle"
         /\ last'.op = "move" /\ last'.detail = "Cell already occupied") =>
            LET g == req[p].game
                e == req[p].expected_turn
            IN  \A t \in {e, e + 1} :
                    /\ revert_turn(WithTurn(g, t), g, e)[g].turn_no = e
                    /\ revert_turn(WithTurn(g, t), g, e) # WithTurn(g, t)
                           <=> t = e + 1

\* C25: when a move that holds a turn claim finds its cell occupied, the
\* compensating write matches the row of the game exactly when its turn_no is
\* the claimed value expected_turn + 1, and then sets it back to
\* expected_turn.
C25_RevertMatchesClaimedTurn == [][C25_Step]_vars

\* ---- C26 ----
\* the lines of the board of game g whose three cells hold one user's mark
CompletedLines(g) ==
    {line \in Lines :
        \E u \in UserIds : \A cell \in line : CellOwnerIn(moves, g, cell) = u}

\* the cell of the last accepted move of game g
LastCell(g) ==
    LET rows == MoveRowsIn(moves, g)
        m == CHOOSE m \in rows : \A n \in rows : n.move_no <= m.move_no
    IN  <<m.row, m.col>>

\* C26 as stated: every board reachable through accepted moves contains at
\* most one completed line.
C26_Original ==
    \A g \in 1..Len(games) : Cardinality(CompletedLines(g)) <= 1

\* C26, amended: on every board reachable through accepted moves all
\* completed lines belong to one user, the user of the last accepted move, and
\* pass through the cell of that move, and the game is finished with that user
\* as winner; the board holds at most two completed lines, two when the last
\* move completes both at once.
C26_Amended ==
    \A g \in 1..Len(games) :
        LET done == CompletedLines(g)
        IN  /\ Cardinality(done) <= 2
            /\ done # {} =>
                   /\ games[g].status = "finished"
                   /\ games[g].winner_id = LastMover(g)
                   /\ \A line \in done :
                          /\ LastCell(g) \in line
                          /\ \A cell \in line :
                                 CellOwnerIn(moves, g, cell) = LastMover(g)

\* the ninth move, onto the corner, completed row 0 and column 2 at once
C26_Witness ==
    /\ last.op = "move" /\ last.status = 200 /\ last.target = <<0, 2>>
    /\ games[1].turn_no = FULL_BOARD
    /\ CompletedLines(1) = {{<<0, c>> : c \in Coords}, {<<r, 2>> : r \in Coords}}
    /\ games[1].winner_id = 1

\* ---- C27 ----
\* the user whose marks fill the line
LineOwner(g, line) == CellOwnerIn(moves, g, CHOOSE cell \in line : TRUE)

\* C27: in every state the winner of a game, when there is one, holds one of
\* the two seats of that game, is the user of the game's last accepted move,
\* and owns every completed line of the board; the user of the other seat
\* owns none.
C27_WinnerIsSeatedLastMover ==
    \A g \in 1..Len(games) :
        games[g].winner_id # None =>
            LET w == games[g].winner_id
                seated == {seat.user_id : seat \in SeatsIn(players, g)}
            IN  /\ Cardinality(seated) = 2
                /\ w \in seated
                /\ w = LastMover(g)
                /\ \A line \in CompletedLines(g) : LineOwner(g, line) = w
                /\ \A u \in seated \ {w} : ~OwnsLine(g, u)

\* user 2, in seat 1, has won with the eighth move and user 1 owns no line
C27_Witness ==
    /\ last.op = "move" /\ last.status = 200 /\ last.user = 2
    /\ games[1].winner_id = 2
    /\ games[1].turn_no = 8
    /\ LastMover(1) = 2
    /\ OwnsLine(1, 2) /\ ~OwnsLine(1, 1)

\* the winner completed two lines with one move and owns both
C27_WitnessTwoLines ==
    /\ games[1].winner_id # None
    /\ Cardinality(CompletedLines(1)) = 2
    /\ \A line \in CompletedLines(1) : LineOwner(1, line) = games[1].winner_id

\* ---- C28 ----
\* C28: whatever the interleaving of the join requests, a game never has more
\* than two seats, no two seats of a game have the same player_order or the
\* same user, a game is waiting exactly when it has one seat, and a game in
\* progress or finished has exactly two seats, held by two distinct users.
C28_SeatsUnderConcurrentJoins ==
    \A g \in 1..Len(games) :
        LET rows == game_players(players, g)
            n == Cardinality(rows)
        IN  /\ n <= 2
            /\ \A i, j \in rows :
                   i # j => /\ players[i].player_order # players[j].player_order
                            /\ players[i].user_id # players[j].user_id
            /\ games[g].status = "waiting" <=> n = 1
            /\ games[g].status \in {"in_progress", "finished"} =>
                   /\ n = 2
                   /\ Cardinality({players[i].user_id : i \in rows}) = 2
                   /\ {players[i].player_order : i \in rows} = {0, 1}

\* two joins of two users passed the guards on the waiting game; one was
\* committed and started the game, the other has just failed on insert and its
\* user holds no seat
C28_Witness ==
    /\ last.op = "join" /\ last.detail = "IntegrityError"
    /\ games[last.game].status = "in_progress"
    /\ Cardinality(SeatsIn(players, last.game)) = 2
    /\ \A seat \in SeatsIn(players, last.game) : seat.user_id # last.user

\* ---- C29 ----
\* C29: in every committed state a game that is not finished has a turn_no
\* below 9, fewer than nine marks and no completed line on its board; a game
\* whose board is full or holds a completed line is finished.
C29_UnfinishedHasNoLine ==
    \A g \in 1..Len(games) :
        /\ games[g].status # "finished" =>
               /\ games[g].turn_no < FULL_BOARD
               /\ Cardinality(MarksIn(moves, g)) < FULL_BOARD
               /\ CompletedLines(g) = {}
               /\ games[g].winner_id = None
        /\ (CompletedLines(g) # {} \/ Cardinality(MarksIn(moves, g)) = FULL_BOARD)
               => games[g].status = "finished"

\* the eighth move was accepted, it completed no line, and the game is still
\* in progress with one empty cell
C29_Witness ==
    /\ last.op = "move" /\ last.status = 200
    /\ games[last.game].status = "in_progress"
    /\ games[last.game].turn_no = FULL_BOARD - 1
    /\ Cardinality(MarksIn(moves, last.game)) = FULL_BOARD - 1
    /\ CompletedLines(last.game) = {}

C30_WitnessRetry ==
    /\ games[1].status = "in_progress"
    /\ last.op = "move" /\ last.status = 400
    /\ \E p \in Procs : pc[p] = "idle" /\ req[p].op = "none"

====
